---- MODULE Spec2Model ----
(***************************************************************************)
(* Model of the agent_monitor SDK: the AgentMonitor facade (monitor.py),   *)
(* the AgentClient HTTP client and the HeartbeatThread (client.py) and the *)
(* framework integrations (integrations.py).                               *)
(*                                                                         *)
(* One facade instance is modelled.  Every call of the facade's public     *)
(* methods is one atomic action of the caller's thread; the heartbeat      *)
(* thread is a separate process whose run() is split at every point where  *)
(* the caller's thread can interleave.  The backend is the environment:    *)
(* every HTTP request gets its outcome (a status code or a transport       *)
(* failure) nondeterministically.                                          *)
(***************************************************************************)
EXTENDS Integers, Sequences, FiniteSets, TLC

\* Bound: number of AgentClient objects one facade may create, i.e. the
\* number of start() calls that get past the is_started guard.
MaxClients == 2

\* Python's None, for object references and for the identifier.
None == 0

\* Outcome of a request that never got a response
\* (requests.exceptions.RequestException); status codes otherwise.
NetErr == 0 - 1

\* Representative responses of the backend to the registration POST.
RegStatusCodes == {201, 304, 401, 409, 500}
RegOutcomes == RegStatusCodes \cup {NetErr}

\* Representative responses to a log insert or a status patch.
SendOutcomes == {200, 500, NetErr}

\* Outcomes of the requests start() and stop() make besides the registration
\* POST, and of a heartbeat: delivered, or failed at the transport level.
\* Within one call of start() or stop() the log inserts share one outcome;
\* the status patch has its own.
InnerOutcomes == {200, NetErr}

\* The conflict fallback's PATCH is only sent after a 409.
PatchOutcomes(oPost) == IF oPost = 409 THEN InnerOutcomes ELSE {200}

\* Values of the heartbeat_interval constructor argument.
Intervals == {0, 30}

Objs == 1..MaxClients

\* register_agent calls made on a directly used client.
MaxRegs == 2

\* Calls of the package-level init().
MaxInits == 3

\* Values of the timeout argument of init().
Timeouts == {5, 30}

\* Facades of one process that run a CustomIntegration.
MaxShims == 3

\* Levels and statuses passed to a directly used client.
ClientLevels == {"info", "error"}
ClientStatuses == {"idle", "error"}

VARIABLES
    cfg,               \* constructor arguments auto_detect, heartbeat_interval
    is_started,        \* AgentMonitor.is_started
    client,            \* AgentMonitor.client (index into clients, or None)
    heartbeat_thread,  \* AgentMonitor.heartbeat_thread (index into threads)
    framework_info,    \* AgentMonitor.framework_info ("none" or framework name)
    integration,       \* AgentMonitor.integration (index into integrations)
    clients,           \* the AgentClient objects created so far
    threads,           \* the HeartbeatThread objects created so far
    integrations,      \* the integration objects created so far
    excepthook,        \* sys.excepthook: None is the interpreter's own hook
    nClients,          \* number of AgentClient objects created
    lastOp,            \* observation of the last facade call
    lastHb,            \* observation of the last heartbeat request
    startedId,         \* identifier returned by the last start() that ran
    everStopped,       \* stop() has run on a started facade
    sc,                \* an AgentClient the caller constructed and uses directly
    scRegs,            \* number of register_agent calls made on sc
    scOp,              \* observation of the last call on sc
    config,            \* the package's Config singleton (config.py)
    global_monitor,    \* monitor._global_monitor: None, or set (the facade)
    lastInit,          \* observation of the package-level init() calls
    shims              \* CustomIntegration objects of several facades

vars == <<cfg, is_started, client, heartbeat_thread, framework_info,
          integration, clients, threads, integrations, excepthook, nClients,
          lastOp, lastHb, startedId, everStopped, sc, scRegs, scOp,
          config, global_monitor, lastInit, shims>>

\* The package-level state: configuration and global monitor.
pkgVars == <<config, global_monitor, lastInit>>

\* The directly used client and what is observed of it.
clientVars == <<sc, scRegs, scOp>>

\* Everything that belongs to the facade and its threads.
monitorVars == <<cfg, is_started, client, heartbeat_thread, framework_info,
                 integration, clients, threads, integrations, excepthook,
                 nClients, lastOp, lastHb, startedId, everStopped>>

facadeVars == <<is_started, client, heartbeat_thread, framework_info,
                integration>>

----------------------------------------------------------------------------
\* Requests and results

Req(method, resource, id, body, outcome) ==
    [method |-> method, resource |-> resource, agent_id |-> id,
     body |-> body, outcome |-> outcome]

\* Default of the timeout parameter of AgentClient.__init__ and of init().
DefaultTimeout == 30

\* requests.Response.ok: the status code is below 400.
ResponseOk(status) == status < 400

\* AgentClient.__init__
NewClient == [agent_id |-> None, closed |-> FALSE, timeout |-> DefaultTimeout]

NoClient == [agent_id |-> None, closed |-> FALSE, timeout |-> DefaultTimeout]

\* `timeout=self.timeout` in each of the three session calls
RequestTimeout(cl) == cl.timeout

\* The identifier built in register_agent from name, time and uuid: a fresh
\* non-empty string per client object, modelled by the object's number.
GenerateAgentId(k) == k

\* Variant of the registration test that takes every client as registered.
AlwaysRegistered(cl) == FALSE

\* `not self.agent_id`
NotRegistered(cl) == cl.agent_id = None

\* Variant of _update_agent_status without its try/except: a transport
\* failure of the PATCH propagates to the caller.
UpdateStatusUncaught(cl, status, o) ==
    IF NotRegistered(cl)
    THEN [exc |-> "AgentMonitorError", value |-> None, reqs |-> <<>>,
          console |-> 0]
    ELSE [exc |-> IF o = NetErr THEN "RequestException" ELSE "none",
          value |-> IF o = NetErr THEN None ELSE cl.agent_id,
          reqs |-> <<Req("PATCH", "agents", cl.agent_id, status, o)>>,
          console |-> IF o # NetErr /\ ~ResponseOk(o) THEN 1 ELSE 0]

\* AgentClient._update_agent_status
_update_agent_status(cl, status, o) ==
    IF NotRegistered(cl)
    THEN [exc |-> "AgentMonitorError", value |-> None, reqs |-> <<>>,
          console |-> 0]
    ELSE [exc |-> "none", value |-> cl.agent_id,
          reqs |-> <<Req("PATCH", "agents", cl.agent_id, status, o)>>,
          console |-> IF o = NetErr \/ ~ResponseOk(o) THEN 1 ELSE 0]

\* Variant of the except clause that catches every Exception.
CaughtAsAnyException(exc) == exc # "none"

\* `except requests.exceptions.RequestException` in register_agent
CaughtAsRequestException(exc) == exc = "RequestException"

\* Variant of the try block in which a transport failure of the POST is
\* swallowed and the identifier returned.
RegisterTryIgnoresTransport(cl, oPost, oPatch) ==
    LET post == Req("POST", "agents", cl.agent_id, "running", oPost)
    IN  IF oPost = NetErr
        THEN [exc |-> "none", value |-> cl.agent_id, reqs |-> <<post>>,
              console |-> 1]
        ELSE IF oPost = 401
        THEN [exc |-> "AuthenticationError", value |-> None,
              reqs |-> <<post>>, console |-> 0]
        ELSE IF oPost = 409
        THEN LET u == _update_agent_status(cl, "running", oPatch)
             IN  [exc |-> u.exc, value |-> u.value,
                  reqs |-> <<post>> \o u.reqs, console |-> u.console]
        ELSE IF ~ResponseOk(oPost)
        THEN [exc |-> "AgentMonitorError", value |-> None,
              reqs |-> <<post>>, console |-> 0]
        ELSE [exc |-> "none", value |-> cl.agent_id, reqs |-> <<post>>,
              console |-> 0]

\* The try block of register_agent, before its except clause.
RegisterTry(cl, oPost, oPatch) ==
    LET post == Req("POST", "agents", cl.agent_id, "running", oPost)
    IN  IF oPost = NetErr
        THEN [exc |-> "RequestException", value |-> None, reqs |-> <<post>>,
              console |-> 0]
        ELSE IF oPost = 401
        THEN [exc |-> "AuthenticationError", value |-> None,
              reqs |-> <<post>>, console |-> 0]
        ELSE IF oPost = 409
        THEN LET u == _update_agent_status(cl, "running", oPatch)
             IN  [exc |-> u.exc, value |-> u.value,
                  reqs |-> <<post>> \o u.reqs, console |-> u.console]
        ELSE IF ~ResponseOk(oPost)
        THEN [exc |-> "AgentMonitorError", value |-> None,
              reqs |-> <<post>>, console |-> 0]
        ELSE [exc |-> "none", value |-> cl.agent_id, reqs |-> <<post>>,
              console |-> 0]

\* Variant of the identifier assignment without its `if not self.agent_id`
\* test: every register_agent call generates a new identifier.
AssignAgentIdAlways(cl, k) == [cl EXCEPT !.agent_id = GenerateAgentId(k)]

\* `if not self.agent_id: self.agent_id = ...` at the top of register_agent;
\* k numbers the identifier that would be generated.
AssignAgentId(cl, k) ==
    IF NotRegistered(cl)
    THEN [cl EXCEPT !.agent_id = GenerateAgentId(k)]
    ELSE cl

\* Variant of register_agent that returns an identifier taken from the
\* backend's answer instead of the one it generated and stored.
RegisterReturnsServerId(cl, k, oPost, oPatch) ==
    LET cl2 == AssignAgentId(cl, k)
        t == RegisterTry(cl2, oPost, oPatch)
    IN  [client |-> cl2,
         exc |-> IF CaughtAsRequestException(t.exc)
                 THEN "ConnectionError" ELSE t.exc,
         value |-> IF t.exc = "none" THEN t.value + MaxClients ELSE t.value,
         reqs |-> t.reqs, console |-> t.console,
         outcome |-> oPost]

\* AgentClient.register_agent on client object number k
register_agent(cl, k, oPost, oPatch) ==
    LET cl2 == AssignAgentId(cl, k)
        t == RegisterTry(cl2, oPost, oPatch)
    IN  [client |-> cl2,
         exc |-> IF CaughtAsRequestException(t.exc)
                 THEN "ConnectionError" ELSE t.exc,
         value |-> t.value, reqs |-> t.reqs, console |-> t.console,
         outcome |-> oPost]

\* Variant of send_log that repeats a request that failed.
SendLogRetries(cl, level, o) ==
    IF NotRegistered(cl)
    THEN [exc |-> "AgentMonitorError", reqs |-> <<>>, console |-> 0]
    ELSE LET q == Req("POST", "agent_logs", cl.agent_id, level, o)
             failed == o = NetErr \/ ~ResponseOk(o)
         IN  [exc |-> "none",
              reqs |-> IF failed THEN <<q, q>> ELSE <<q>>,
              console |-> IF failed THEN 1 ELSE 0]

\* AgentClient.send_log
send_log(cl, level, o) ==
    IF NotRegistered(cl)
    THEN [exc |-> "AgentMonitorError", reqs |-> <<>>, console |-> 0]
    ELSE [exc |-> "none",
          reqs |-> <<Req("POST", "agent_logs", cl.agent_id, level, o)>>,
          console |-> IF o = NetErr \/ ~ResponseOk(o) THEN 1 ELSE 0]

\* Variant of log that always takes the console path.
LogConsoleOnly(c, cls, level, o) == [reqs |-> <<>>, console |-> 1]

\* Variant of log that sends even when the facade has no client yet.
LogWithoutClientSends(c, cls, level, o) ==
    IF c = None
    THEN [reqs |-> <<Req("POST", "agent_logs", None, level, o)>>,
          console |-> 0]
    ELSE LET s == send_log(cls[c], level, o)
         IN  [reqs |-> s.reqs,
              console |-> s.console + (IF s.exc = "none" THEN 0 ELSE 1)]

\* AgentMonitor.log with the facade's client reference c
\* (trace and error are log with level "trace" and "error").
log(c, cls, level, o) ==
    IF c = None
    THEN [reqs |-> <<>>, console |-> 1]
    ELSE LET s == send_log(cls[c], level, o)
         IN  [reqs |-> s.reqs,
              console |-> s.console + (IF s.exc = "none" THEN 0 ELSE 1)]

----------------------------------------------------------------------------
\* Integrations (integrations.py)

\* The environment modelled has none of the probed packages installed, the
\* expected case: detect_framework() answers 'custom' (available).
DetectedFramework == "custom"

\* INTEGRATIONS registry and get_integration_for_framework
IntegrationClass(framework) ==
    IF framework = "langchain" THEN "LangChainIntegration"
    ELSE IF framework = "langgraph" THEN "LangGraphIntegration"
    ELSE "CustomIntegration"

NoIntegration ==
    [class |-> "none", is_active |-> FALSE, has_original |-> FALSE,
     original_excepthook |-> None]

\* BaseIntegration.__init__ followed by setup(): CustomIntegration stores
\* sys.excepthook and installs its own hook, LangChainIntegration
\* and LangGraphIntegration leave it alone.  All end with is_active = True.
IntegrationSetup(class, hook) ==
    [class |-> class, is_active |-> TRUE,
     has_original |-> class = "CustomIntegration",
     original_excepthook |->
         IF class = "CustomIntegration" THEN hook ELSE None]

\* sys.excepthook after setup() of integration object k
HookAfterSetup(class, k, hook) ==
    IF class = "CustomIntegration" THEN k ELSE hook

\* sys.excepthook after cleanup(): restored when the integration stored one
HookAfterCleanup(integ, hook) ==
    IF integ.has_original THEN integ.original_excepthook ELSE hook

----------------------------------------------------------------------------
\* Heartbeat thread (client.py)

\* A thread object: its client, its running flag, the position of run() and
\* whether stop() has been called on it.
NoThread ==
    [client |-> None, running |-> FALSE, pc |-> "unborn", stopped |-> FALSE]

\* HeartbeatThread.__init__ followed by Thread.start()
NewThread(k) ==
    [client |-> k, running |-> FALSE, pc |-> "started", stopped |-> FALSE]

\* HeartbeatThread.stop
ThreadStop(t) == [t EXCEPT !.running = FALSE, !.stopped = TRUE]

\* Variant of run() that gives up after a heartbeat that failed.
AfterTickGiveUp(th, h) ==
    [th EXCEPT !.pc = IF h.console > 0 THEN "done" ELSE "sleep"]

\* The thread after one pass of the loop body: send_heartbeat() returned or
\* raised, and in both cases time.sleep(self.interval) follows.
AfterTick(th, h) ==
    [th EXCEPT !.pc = "sleep"]

----------------------------------------------------------------------------
\* Observations

NoReg ==
    [called |-> FALSE, outcome |-> 200, exc |-> "none", value |-> None,
     reqs |-> <<>>]

\* The on_start, on_stop and on_error attributes are public and None after
\* construction; the caller may assign them at any time.  A call of a
\* handler that is set either returns or raises: hooks is the set of handlers
\* that were called and raised during a facade call.
NoHooks == {}

RegObs(r) ==
    [called |-> TRUE, outcome |-> r.outcome, exc |-> r.exc,
     value |-> r.value, reqs |-> r.reqs]

\* The facade's state as the caller can observe it before a call.
Snapshot ==
    [is_started |-> is_started, client |-> client,
     heartbeat_thread |-> heartbeat_thread, integration |-> integration,
     framework_info |-> framework_info, startedId |-> startedId,
     nClients |-> nClients, everStopped |-> everStopped]

Obs(op, result, value, reqs, console, reg, hooks) ==
    [op |-> op, result |-> result, value |-> value, reqs |-> reqs,
     console |-> console, reg |-> reg, hooks |-> hooks, pre |-> Snapshot]

NoLog == [reqs |-> <<>>, console |-> 0]

----------------------------------------------------------------------------
\* Facade (monitor.py)

TypeOK ==
    /\ is_started \in BOOLEAN
    /\ client \in 0..MaxClients
    /\ heartbeat_thread \in 0..MaxClients
    /\ integration \in 0..MaxClients
    /\ nClients \in 0..MaxClients
    /\ excepthook \in 0..MaxClients \cup 0..MaxShims
    /\ config.timeout \in Timeouts
    /\ global_monitor \in {None, 1}
    /\ lastInit.calls \in 0..MaxInits
    /\ \A t \in Objs : threads[t].running \in BOOLEAN
                       /\ threads[t].stopped \in BOOLEAN
    /\ lastHb.attempts \in 0..1
    /\ sc.agent_id \in 0..MaxRegs
    /\ scRegs \in 0..MaxRegs

\* AgentMonitor.__init__: valid endpoint and credential, nothing created.
Init ==
    /\ cfg \in [auto_detect : BOOLEAN, heartbeat_interval : Intervals]
    /\ is_started = FALSE
    /\ client = None
    /\ heartbeat_thread = None
    /\ framework_info = "none"
    /\ integration = None
    /\ clients = [k \in Objs |-> NoClient]
    /\ threads = [k \in Objs |-> NoThread]
    /\ integrations = [k \in Objs |-> NoIntegration]
    /\ excepthook = None
    /\ nClients = 0
    /\ lastOp = [op |-> "init", result |-> "return", value |-> None,
                 reqs |-> <<>>, console |-> 0, reg |-> NoReg,
                 hooks |-> NoHooks,
                 pre |-> [is_started |-> FALSE, client |-> None,
                          heartbeat_thread |-> None, integration |-> None,
                          framework_info |-> "none", startedId |-> None,
                          nClients |-> 0, everStopped |-> FALSE]]
    /\ lastHb = [thread |-> None, req |-> Req("-", "-", None, "-", 200),
                 attempts |-> 0]
    /\ startedId = None
    /\ everStopped = FALSE
    /\ sc = NewClient
    /\ scRegs = 0
    /\ scOp = [op |-> "init", exc |-> "none", value |-> None, reqs |-> <<>>,
               console |-> 0, pre |-> NewClient]
    /\ config = [timeout |-> DefaultTimeout, initialized |-> FALSE]
    /\ global_monitor = None
    /\ lastInit = [calls |-> 0, constructed |-> FALSE, starts |-> 0,
                   result |-> "return", reqs |-> <<>>]
    /\ shims = [k \in 1..MaxShims |-> NoIntegration]

\* Variant of start() without its idempotence guard.
NoStartedGuard(started) == FALSE

\* `if self.is_started:` at the top of start()
IsStartedGuard(started) == started

\* `return self.client.agent_id if self.client else None`
ExistingId(c, cls) == IF c # None THEN cls[c].agent_id ELSE None

\* Variant of start() that launches the heartbeat thread before it registers.
HeartbeatLaunchedFirst(exc, interval) == interval > 0

\* `if self.heartbeat_interval > 0:` in start(): the statement is reached
\* only when register_agent did not raise.
HeartbeatLaunched(exc, interval) == exc = "none" /\ interval > 0

\* Variant of the except clause that re-raises the error it caught.
ReraiseStartError(exc) == exc

\* The except clause of start(): on_error is called when set, then the
\* error is re-raised as AgentMonitorError whatever its type was.
WrapStartError(exc) == "AgentMonitorError"

StartExcept(exc, on_error_raises) ==
    IF on_error_raises THEN "HandlerError" ELSE WrapStartError(exc)

Hooks(on_start_raises, on_stop_raises, on_error_raises) ==
    (IF on_start_raises THEN {"on_start"} ELSE {})
    \cup (IF on_stop_raises THEN {"on_stop"} ELSE {})
    \cup (IF on_error_raises THEN {"on_error"} ELSE {})

\* start() on a started facade: one warning log, the existing identifier.
StartAgain(o1) ==
    /\ IsStartedGuard(is_started)
    /\ LET l == log(client, clients, "warning", o1)
           id == ExistingId(client, clients)
       IN  /\ lastOp' = Obs("start", "return", id, l.reqs, l.console, NoReg,
                          NoHooks)
           /\ startedId' = id
    /\ UNCHANGED clientVars
    /\ UNCHANGED <<pkgVars, shims>>
    /\ UNCHANGED <<cfg, facadeVars, clients, threads, integrations,
                   excepthook, nClients, lastHb, everStopped>>

\* start() past the guard: detect, create the client, register, launch the
\* heartbeat, set up the integration, set is_started, call on_start.
StartBody(o, oPost, oPatch, on_start_raises, on_error_raises) ==
    /\ ~IsStartedGuard(is_started)
    /\ nClients < MaxClients
    /\ LET fi == IF cfg.auto_detect THEN DetectedFramework
                 ELSE framework_info
           l1 == IF cfg.auto_detect
                 THEN log(client, clients, "info", o) ELSE NoLog
           k == nClients + 1
           r == register_agent(NewClient, k, oPost, oPatch)
           cls2 == [clients EXCEPT ![k] = r.client]
       IN  /\ framework_info' = fi
           /\ client' = k
           /\ clients' = cls2
           /\ nClients' = k
           /\ heartbeat_thread' =
                  IF HeartbeatLaunched(r.exc, cfg.heartbeat_interval)
                  THEN k ELSE heartbeat_thread
           /\ threads' =
                  IF HeartbeatLaunched(r.exc, cfg.heartbeat_interval)
                  THEN [threads EXCEPT ![k] = NewThread(k)]
                  ELSE threads
           /\ IF r.exc # "none"
              THEN /\ lastOp' = Obs("start",
                                    StartExcept(r.exc, on_error_raises),
                                    None, l1.reqs \o r.reqs,
                                    l1.console + r.console, RegObs(r),
                                    Hooks(FALSE, FALSE, on_error_raises))
                   /\ startedId' = None
                   /\ UNCHANGED <<is_started, integration, integrations,
                                  excepthook>>
              ELSE LET integ == fi # "none"
                       class == IntegrationClass(fi)
                       l3 == IF integ THEN log(k, cls2, "info", o)
                             ELSE NoLog
                       l4 == log(k, cls2, "info", o)
                       reqs == l1.reqs \o r.reqs \o l3.reqs \o l4.reqs
                       console == l1.console + r.console + l3.console
                                  + l4.console
                   IN  /\ integration' = IF integ THEN k ELSE integration
                       /\ integrations' =
                              IF integ
                              THEN [integrations EXCEPT
                                      ![k] = IntegrationSetup(class,
                                                              excepthook)]
                              ELSE integrations
                       /\ excepthook' =
                              IF integ
                              THEN HookAfterSetup(class, k, excepthook)
                              ELSE excepthook
                       /\ is_started' = TRUE
                       /\ IF on_start_raises
                          THEN /\ lastOp' = Obs("start",
                                                StartExcept("HandlerError",
                                                            on_error_raises),
                                                None, reqs, console,
                                                RegObs(r),
                                                Hooks(TRUE, FALSE,
                                                      on_error_raises))
                               /\ startedId' = None
                          ELSE /\ lastOp' = Obs("start", "return", r.value,
                                                reqs, console, RegObs(r),
                                                NoHooks)
                               /\ startedId' = r.value
    /\ UNCHANGED <<cfg, lastHb, everStopped>>

\* AgentMonitor.start() called by the program
StartFull(o, oPost, oPatch, on_start_raises, on_error_raises) ==
    /\ StartBody(o, oPost, oPatch, on_start_raises, on_error_raises)
    /\ UNCHANGED clientVars
    /\ UNCHANGED <<pkgVars, shims>>

\* `if not self.is_started: return` at the top of stop()
StopNoop ==
    /\ ~is_started
    /\ lastOp' = Obs("stop", "return", None, <<>>, 0, NoReg, NoHooks)
    /\ UNCHANGED clientVars
    /\ UNCHANGED <<pkgVars, shims>>
    /\ UNCHANGED <<cfg, facadeVars, clients, threads, integrations,
                   excepthook, nClients, lastHb, startedId, everStopped>>

\* AgentClient.shutdown
shutdown(cl, o) ==
    LET u == IF ~NotRegistered(cl)
             THEN _update_agent_status(cl, "offline", o)
             ELSE [exc |-> "none", value |-> None, reqs |-> <<>>,
                   console |-> 0]
    IN  [client |-> [cl EXCEPT !.closed = TRUE], reqs |-> u.reqs,
         console |-> u.console]

\* Variant of stop() that shuts the client down before the integration
\* is cleaned up: cleanup() then finds no client.
ClientAfterShutdown(c) == None

\* The facade's client reference while integration.cleanup() runs in stop():
\* cleanup comes before the heartbeat stop and the client shutdown, so the
\* reference is still set.
ClientDuringCleanup(c) == c

\* Variant of stop() that clears is_started after the on_stop handler
\* returned: a raising handler leaves the flag set.
StartedAfterLateClear(on_stop_raises) == on_stop_raises

\* is_started at the end of stop(): `self.is_started = False` is executed
\* before on_stop is called, so the handler's outcome does not matter.
StartedAfterStop(on_stop_raises) == FALSE

\* Variant of stop() without its except clause.
StopReraises(exc) == exc

\* The except clause of stop(): every Exception is printed and swallowed.
StopResult(exc) == "return"

\* stop() on a started facade: log, integration cleanup, heartbeat stop,
\* client shutdown, is_started = False, on_stop.
StopFull(o, oOff, on_stop_raises) ==
    /\ is_started
    /\ LET l1 == log(client, clients, "info", o)
           integ == integration # None
           l2 == IF integ
                 THEN log(ClientDuringCleanup(client), clients, "info", o)
                 ELSE NoLog
           sd == IF client # None
                 THEN shutdown(clients[client], oOff)
                 ELSE [client |-> NoClient, reqs |-> <<>>, console |-> 0]
           handler == IF on_stop_raises THEN "HandlerError" ELSE "none"
       IN  /\ integrations' =
                  IF integ
                  THEN [integrations EXCEPT ![integration].is_active = FALSE]
                  ELSE integrations
           /\ excepthook' =
                  IF integ
                  THEN HookAfterCleanup(integrations[integration], excepthook)
                  ELSE excepthook
           /\ threads' =
                  IF heartbeat_thread # None
                  THEN [threads EXCEPT
                          ![heartbeat_thread] = ThreadStop(@)]
                  ELSE threads
           /\ heartbeat_thread' = None
           /\ clients' = IF client # None
                         THEN [clients EXCEPT ![client] = sd.client]
                         ELSE clients
           /\ client' = None
           /\ is_started' = StartedAfterStop(on_stop_raises)
           /\ lastOp' = Obs("stop",
                            IF handler = "none" THEN "return"
                            ELSE StopResult(handler),
                            None, l1.reqs \o l2.reqs \o sd.reqs,
                            l1.console + l2.console + sd.console
                            + (IF handler = "none" THEN 0 ELSE 1), NoReg,
                            Hooks(FALSE, on_stop_raises, FALSE))
    /\ everStopped' = TRUE
    /\ UNCHANGED clientVars
    /\ UNCHANGED <<pkgVars, shims>>
    /\ UNCHANGED <<cfg, framework_info, integration, nClients, lastHb,
                   startedId>>

Levels == {"info"}
Statuses == {"idle"}

\* AgentMonitor.log / trace / error
Log(level, o) ==
    /\ LET l == log(client, clients, level, o)
       IN  lastOp' = Obs("log", "return", None, l.reqs, l.console, NoReg,
                         NoHooks)
    /\ UNCHANGED clientVars
    /\ UNCHANGED <<pkgVars, shims>>
    /\ UNCHANGED <<cfg, facadeVars, clients, threads, integrations,
                   excepthook, nClients, lastHb, startedId, everStopped>>

\* Variant of update_status without its `if self.client` guard: the call on
\* None raises AttributeError.
UpdateStatusUnguarded(c, cls, status, o) ==
    IF c # None
    THEN _update_agent_status(cls[c], status, o)
    ELSE [exc |-> "AttributeError", value |-> None, reqs |-> <<>>,
          console |-> 0]

\* AgentMonitor.update_status
update_status(c, cls, status, o) ==
    IF c # None
    THEN _update_agent_status(cls[c], status, o)
    ELSE [exc |-> "none", value |-> None, reqs |-> <<>>, console |-> 0]

UpdateStatus(status, o) ==
    /\ LET u == update_status(client, clients, status, o)
       IN  lastOp' = Obs("update_status",
                         IF u.exc = "none" THEN "return" ELSE u.exc,
                         None, u.reqs, u.console, NoReg, NoHooks)
    /\ UNCHANGED clientVars
    /\ UNCHANGED <<pkgVars, shims>>
    /\ UNCHANGED <<cfg, facadeVars, clients, threads, integrations,
                   excepthook, nClients, lastHb, startedId, everStopped>>

----------------------------------------------------------------------------
\* HeartbeatThread.run, one action per interleaving point

\* `self.running = True`
HBRun(t) ==
    /\ threads[t].pc = "started"
    /\ threads' = [threads EXCEPT ![t].running = TRUE, ![t].pc = "check"]
    /\ UNCHANGED clientVars
    /\ UNCHANGED <<pkgVars, shims>>
    /\ UNCHANGED <<cfg, facadeVars, clients, integrations, excepthook,
                   nClients, lastOp, lastHb, startedId, everStopped>>

\* `while self.running:`
HBCheck(t) ==
    /\ threads[t].pc = "check"
    /\ threads' = [threads EXCEPT
                     ![t].pc = IF threads[t].running THEN "send" ELSE "done"]
    /\ UNCHANGED clientVars
    /\ UNCHANGED <<pkgVars, shims>>
    /\ UNCHANGED <<cfg, facadeVars, clients, integrations, excepthook,
                   nClients, lastOp, lastHb, startedId, everStopped>>

\* Variant of send_heartbeat that reports another status than 'running'.
SendHeartbeatIdle(cl, o) == _update_agent_status(cl, "idle", o)

\* AgentClient.send_heartbeat
send_heartbeat(cl, o) == _update_agent_status(cl, "running", o)

\* `self.client.send_heartbeat()` inside the try of run()
HBSend(t, o) ==
    /\ threads[t].pc = "send"
    /\ LET h == send_heartbeat(clients[threads[t].client], o)
       IN  /\ lastHb' = IF h.reqs # <<>>
                         THEN [thread |-> t, req |-> h.reqs[1],
                               attempts |-> Len(h.reqs)]
                         ELSE lastHb
           /\ threads' = [threads EXCEPT ![t] = AfterTick(@, h)]
    /\ UNCHANGED clientVars
    /\ UNCHANGED <<pkgVars, shims>>
    /\ UNCHANGED <<cfg, facadeVars, clients, integrations, excepthook,
                   nClients, lastOp, startedId, everStopped>>

\* `time.sleep(self.interval)` returns
HBWake(t) ==
    /\ threads[t].pc = "sleep"
    /\ threads' = [threads EXCEPT ![t].pc = "check"]
    /\ UNCHANGED clientVars
    /\ UNCHANGED <<pkgVars, shims>>
    /\ UNCHANGED <<cfg, facadeVars, clients, integrations, excepthook,
                   nClients, lastOp, lastHb, startedId, everStopped>>

----------------------------------------------------------------------------

Next ==
    \/ \E o1 \in SendOutcomes : StartAgain(o1)
    \/ \E o \in InnerOutcomes, oPost \in RegOutcomes,
          on_start_raises, on_error_raises \in BOOLEAN :
           \E oPatch \in PatchOutcomes(oPost) :
               StartFull(o, oPost, oPatch, on_start_raises, on_error_raises)
    \/ StopNoop
    \/ \E o, oOff \in InnerOutcomes, on_stop_raises \in BOOLEAN :
           StopFull(o, oOff, on_stop_raises)
    \/ \E level \in Levels, o \in SendOutcomes : Log(level, o)
    \/ \E status \in Statuses, o \in SendOutcomes : UpdateStatus(status, o)
    \/ \E t \in Objs : HBRun(t)
    \/ \E t \in Objs : HBCheck(t)
    \/ \E t \in Objs, o \in InnerOutcomes : HBSend(t, o)
    \/ \E t \in Objs : HBWake(t)

Spec == Init /\ [][Next]_vars

----------------------------------------------------------------------------
\* AgentClient used directly (client.py): the class is exported by the
\* package, its methods are public.

ClientObs(op, exc, value, reqs, console) ==
    [op |-> op, exc |-> exc, value |-> value, reqs |-> reqs,
     console |-> console, pre |-> sc]

\* AgentClient.register_agent, the k-th call on this client
ClientRegister(oPost, oPatch) ==
    /\ scRegs < MaxRegs
    /\ LET r == register_agent(sc, scRegs + 1, oPost, oPatch)
       IN  /\ sc' = r.client
           /\ scOp' = ClientObs("register_agent", r.exc, r.value, r.reqs,
                                r.console)
    /\ scRegs' = scRegs + 1
    /\ UNCHANGED monitorVars
    /\ UNCHANGED <<pkgVars, shims>>

\* AgentClient.send_log
ClientSendLog(level, o) ==
    /\ LET s == send_log(sc, level, o)
       IN  scOp' = ClientObs("send_log", s.exc, None, s.reqs, s.console)
    /\ UNCHANGED <<sc, scRegs>>
    /\ UNCHANGED monitorVars
    /\ UNCHANGED <<pkgVars, shims>>

\* AgentClient.update_status
ClientUpdateStatus(status, o) ==
    /\ LET u == _update_agent_status(sc, status, o)
       IN  scOp' = ClientObs("update_status", u.exc, u.value, u.reqs,
                            u.console)
    /\ UNCHANGED <<sc, scRegs>>
    /\ UNCHANGED monitorVars
    /\ UNCHANGED <<pkgVars, shims>>

\* AgentClient.send_heartbeat
ClientSendHeartbeat(o) ==
    /\ LET h == send_heartbeat(sc, o)
       IN  scOp' = ClientObs("send_heartbeat", h.exc, h.value, h.reqs,
                            h.console)
    /\ UNCHANGED <<sc, scRegs>>
    /\ UNCHANGED monitorVars
    /\ UNCHANGED <<pkgVars, shims>>

\* AgentClient.shutdown
ClientShutdown(o) ==
    /\ LET sd == shutdown(sc, o)
       IN  /\ sc' = sd.client
           /\ scOp' = ClientObs("shutdown", "none", None, sd.reqs,
                                sd.console)
    /\ UNCHANGED scRegs
    /\ UNCHANGED monitorVars
    /\ UNCHANGED <<pkgVars, shims>>

NextClient ==
    \/ \E oPost \in RegOutcomes :
           \E oPatch \in PatchOutcomes(oPost) : ClientRegister(oPost, oPatch)
    \/ \E level \in ClientLevels, o \in SendOutcomes : ClientSendLog(level, o)
    \/ \E status \in ClientStatuses, o \in SendOutcomes :
           ClientUpdateStatus(status, o)
    \/ \E o \in SendOutcomes : ClientSendHeartbeat(o)
    \/ \E o \in SendOutcomes : ClientShutdown(o)

SpecClient == Init /\ [][NextClient]_vars

----------------------------------------------------------------------------
\* Package-level init() (__init__.py, config.py): the facade of the model is
\* the global monitor, which exists once global_monitor is set.

\* AgentMonitor(..., agent_name="global_agent", auto_detect=True) in init():
\* the heartbeat interval is the constructor's default.
GlobalCfg == [auto_detect |-> TRUE, heartbeat_interval |-> 30]

InitGlobal == Init /\ cfg = GlobalCfg

\* Variant of init() without its `is None` test.
AlwaysConstruct(g) == TRUE

\* `if global_monitor is None:` in init()
NoGlobalMonitor(g) == g = None

\* init(api_key, dashboard_url, timeout=t): the configuration is set; when
\* no global monitor exists one is constructed, made global and started, and
\* an exception of that start() is printed.  No handler is set on the new
\* monitor.
PkgInit(t, o, oPost, oPatch) ==
    /\ lastInit.calls < MaxInits
    /\ config' = [timeout |-> t, initialized |-> TRUE]
    /\ IF NoGlobalMonitor(global_monitor)
       THEN /\ global_monitor' = 1
            /\ StartBody(o, oPost, oPatch, FALSE, FALSE)
            /\ lastInit' = [calls |-> lastInit.calls + 1,
                            constructed |-> TRUE,
                            starts |-> lastInit.starts + 1,
                            result |-> "return", reqs |-> lastOp'.reqs]
       ELSE /\ lastInit' = [calls |-> lastInit.calls + 1,
                            constructed |-> FALSE,
                            starts |-> lastInit.starts,
                            result |-> "return", reqs |-> <<>>]
            /\ UNCHANGED <<global_monitor, monitorVars>>
    /\ UNCHANGED <<clientVars, shims>>

\* get_global_monitor().stop()
GlobalStop(o, oOff, on_stop_raises) ==
    /\ global_monitor # None
    /\ StopFull(o, oOff, on_stop_raises)

\* get_global_monitor().log(...)
GlobalLog(level, o) ==
    /\ global_monitor # None
    /\ Log(level, o)

\* get_global_monitor().update_status(...)
GlobalUpdateStatus(status, o) ==
    /\ global_monitor # None
    /\ UpdateStatus(status, o)

NextInit ==
    \/ \E t \in Timeouts, o \in InnerOutcomes, oPost \in RegOutcomes :
           \E oPatch \in PatchOutcomes(oPost) : PkgInit(t, o, oPost, oPatch)
    \/ \E o, oOff \in InnerOutcomes, on_stop_raises \in BOOLEAN :
           GlobalStop(o, oOff, on_stop_raises)
    \/ \E level \in Levels, o \in SendOutcomes : GlobalLog(level, o)
    \/ \E status \in Statuses, o \in SendOutcomes :
           GlobalUpdateStatus(status, o)
    \/ \E t \in Objs : HBRun(t)
    \/ \E t \in Objs : HBCheck(t)
    \/ \E t \in Objs, o \in InnerOutcomes : HBSend(t, o)
    \/ \E t \in Objs : HBWake(t)

SpecInit == InitGlobal /\ [][NextInit]_vars

----------------------------------------------------------------------------
\* CustomIntegration objects of several facades of one process
\* (integrations.py): each facade's start() sets its integration up once and
\* its stop() cleans it up; sys.excepthook is shared by all of them.

\* Everything but the integrations and the hook.
hookFrame == <<cfg, is_started, client, heartbeat_thread, framework_info,
               integration, clients, threads, integrations, nClients, lastOp,
               lastHb, startedId, everStopped, clientVars, pkgVars>>

\* CustomIntegration.setup of facade k
ShimSetup(k) ==
    /\ shims[k].class = "none"
    /\ shims' = [shims EXCEPT
                   ![k] = IntegrationSetup("CustomIntegration", excepthook)]
    /\ excepthook' = HookAfterSetup("CustomIntegration", k, excepthook)
    /\ UNCHANGED hookFrame

\* CustomIntegration.cleanup of facade k
ShimCleanup(k) ==
    /\ shims[k].is_active
    /\ shims' = [shims EXCEPT ![k].is_active = FALSE]
    /\ excepthook' = HookAfterCleanup(shims[k], excepthook)
    /\ UNCHANGED hookFrame

NextHooks ==
    \/ \E k \in 1..MaxShims : ShimSetup(k)
    \/ \E k \in 1..MaxShims : ShimCleanup(k)

SpecHooks == Init /\ [][NextHooks]_vars

----------------------------------------------------------------------------
\* Properties

IsRegistration(q) == q.method = "POST" /\ q.resource = "agents"
IsLogInsert(q) == q.method = "POST" /\ q.resource = "agent_logs"
IsStatusPatch(q) == q.method = "PATCH" /\ q.resource = "agents"

ReqsOf(op) == {op.reqs[i] : i \in 1..Len(op.reqs)}

\* The facade's own fields are what they were before the last call.
FacadeUnchanged ==
    /\ is_started = lastOp.pre.is_started
    /\ client = lastOp.pre.client
    /\ heartbeat_thread = lastOp.pre.heartbeat_thread
    /\ integration = lastOp.pre.integration

\* The last call was start() on a facade that was already started.
StartOnStarted == lastOp.op = "start" /\ lastOp.pre.is_started

\* C1: a second start() on a facade on which start() has succeeded returns
\* the identifier the first one returned and sends no registration POST.
C1_StartIdempotent ==
    (StartOnStarted /\ lastOp.pre.startedId # None)
        => /\ lastOp.result = "return"
           /\ lastOp.value = lastOp.pre.startedId
           /\ \A q \in ReqsOf(lastOp) : ~IsRegistration(q)
           /\ ~lastOp.reg.called

C1_Witness ==
    /\ StartOnStarted
    /\ lastOp.pre.startedId # None
    /\ lastOp.value = lastOp.pre.startedId

\* C2 as stated: start() on a started facade changes no facade state and
\* sends no request of any kind.
C2_AsStated ==
    StartOnStarted => (FacadeUnchanged /\ lastOp.reqs = <<>>)

\* C2 amended: start() on a started facade changes no facade state, sends
\* no registration and no status request, sends exactly one log insert (the
\* "already started" warning) for the existing identifier, and returns the
\* existing identifier.
C2_StartAgainOnlyLogs ==
    StartOnStarted
        => /\ FacadeUnchanged
           /\ lastOp.result = "return"
           /\ lastOp.value = clients[client].agent_id
           /\ Len(lastOp.reqs) = 1
           /\ IsLogInsert(lastOp.reqs[1])
           /\ lastOp.reqs[1].body = "warning"
           /\ lastOp.reqs[1].agent_id = lastOp.value

C2_Witness ==
    /\ StartOnStarted
    /\ Len(lastOp.reqs) = 1
    /\ lastOp.reqs[1].outcome = 200

\* The last call was a start() whose registration failed.
StartRegistrationFailed ==
    lastOp.op = "start" /\ lastOp.reg.called /\ lastOp.reg.exc # "none"

\* C3: after a start() whose registration failed the facade is as before
\* the call: not started, no client, no heartbeat thread.
C3_FailedStartLeavesNothing ==
    StartRegistrationFailed
        => /\ ~is_started
           /\ client = None
           /\ heartbeat_thread = None

\* The last call was stop() on a started facade / on a facade not started.
StopOnStarted == lastOp.op = "stop" /\ lastOp.pre.is_started
StopOnStopped == lastOp.op = "stop" /\ ~lastOp.pre.is_started

\* C4: stop() never raises, whatever the outcome of its requests, and
\* stop() on a facade that is not started (a second stop) sends nothing and
\* changes nothing.
C4_StopSafe ==
    /\ lastOp.op = "stop" => lastOp.result = "return"
    /\ StopOnStarted => ~is_started
    /\ StopOnStopped => (lastOp.reqs = <<>> /\ FacadeUnchanged)

C4_Witness ==
    /\ StopOnStarted
    /\ Len(lastOp.reqs) >= 2
    /\ \A q \in ReqsOf(lastOp) : q.outcome = NetErr
    /\ lastOp.result = "return"

\* C5: once stop() has run on a started facade, the facade is never started
\* again and no later start() registers.
C5_StoppedIsTerminal ==
    /\ everStopped => ~is_started
    /\ (lastOp.op = "start" /\ lastOp.pre.everStopped) => ~lastOp.reg.called

\* The facade was started by a start() that returned and stop() has not been
\* called since construction: only log, update_status, error, trace (and
\* further start()) calls follow.
StartedNeverStopped == startedId # None /\ ~everStopped

\* C6: the identifier a start() returns is not None and is the identifier
\* of the facade's client, and every request sent after it (log insert,
\* status patch, heartbeat patch) carries it.
C6_IdentifierStable ==
    /\ (lastOp.op = "start" /\ lastOp.result = "return")
          => /\ lastOp.value # None
             /\ lastOp.value = clients[client].agent_id
    /\ StartedNeverStopped
        => /\ startedId = clients[client].agent_id
           /\ (lastOp.op \in {"log", "update_status"}
                  /\ lastOp.pre.startedId # None)
                 => /\ lastOp.reqs # <<>>
                    /\ \A q \in ReqsOf(lastOp) : q.agent_id = startedId
           /\ StartOnStarted
                 => \A q \in ReqsOf(lastOp) : q.agent_id = startedId
           /\ lastHb.thread # None => lastHb.req.agent_id = startedId
           /\ \A t \in Objs :
                 threads[t].pc # "unborn"
                     => clients[threads[t].client].agent_id = startedId

C6_Witness ==
    /\ StartedNeverStopped
    /\ lastOp.op = "update_status"
    /\ lastOp.pre.startedId # None
    /\ lastHb.thread # None

\* The last call was made on a facade on which start() was never called.
OnNeverStarted == lastOp.pre.nClients = 0

\* C7 as stated: log() and update_status() on a never-started facade do not
\* raise, send nothing and print to the console.
C7_AsStated ==
    (lastOp.op \in {"log", "update_status"} /\ OnNeverStarted)
        => /\ lastOp.result = "return"
           /\ lastOp.reqs = <<>>
           /\ lastOp.console >= 1

\* C7 amended: on a never-started facade neither call raises or sends a
\* request; log() prints one line to the console, update_status() does
\* nothing at all.
C7_NeverStartedFallback ==
    OnNeverStarted
        => /\ lastOp.op = "log"
                 => /\ lastOp.result = "return"
                    /\ lastOp.reqs = <<>>
                    /\ lastOp.console = 1
           /\ lastOp.op = "update_status"
                 => /\ lastOp.result = "return"
                    /\ lastOp.reqs = <<>>
                    /\ lastOp.console = 0

C7_Witness == lastOp.op = "update_status" /\ OnNeverStarted

\* C8: when the registration POST is answered 409, register_agent does not
\* raise, sends exactly one status PATCH for the identifier it attempted
\* and returns that identifier, whether or not the PATCH succeeds.
C8_ConflictFallsBackToPatch ==
    (lastOp.reg.called /\ lastOp.reg.outcome = 409)
        => /\ lastOp.reg.exc = "none"
           /\ Len(lastOp.reg.reqs) = 2
           /\ IsRegistration(lastOp.reg.reqs[1])
           /\ IsStatusPatch(lastOp.reg.reqs[2])
           /\ lastOp.reg.reqs[2].agent_id = lastOp.reg.reqs[1].agent_id
           /\ lastOp.reg.value = lastOp.reg.reqs[1].agent_id
           /\ lastOp.reg.value # None

C8_Witness ==
    /\ lastOp.reg.called
    /\ lastOp.reg.outcome = 409
    /\ lastOp.reg.reqs[2].outcome = NetErr
    /\ lastOp.reg.value # None

\* The last call was a start() whose registration was rejected as
\* unauthorized or could not reach the backend.
StartSetupError ==
    /\ lastOp.op = "start"
    /\ lastOp.reg.called
    /\ lastOp.reg.exc \in {"AuthenticationError", "ConnectionError"}

\* C9 as stated: the caller of start() observes the error type the client
\* raised.
C9_AsStated == StartSetupError => lastOp.result = lastOp.reg.exc

\* C9 amended: the caller of start() observes the base AgentMonitorError in
\* both cases, the client's error type is not kept (and when an on_error
\* handler is set and itself raises, the caller observes that exception).
C9_StartRaisesBaseError ==
    StartSetupError
        => lastOp.result = IF "on_error" \in lastOp.hooks
                           THEN "HandlerError" ELSE "AgentMonitorError"

C9_Witness ==
    /\ StartSetupError
    /\ lastOp.reg.exc = "AuthenticationError"
    /\ lastOp.result = "AgentMonitorError"

Is2xx(status) == status >= 200 /\ status < 300

\* C10 as stated: 401 -> AuthenticationError, transport failure ->
\* ConnectionError, 409 -> no error, 2xx -> the identifier, any other
\* status -> AgentMonitorError.
C10_AsStated ==
    lastOp.reg.called
        => LET o == lastOp.reg.outcome
               e == lastOp.reg.exc
           IN  /\ o = 401 => e = "AuthenticationError"
               /\ o = NetErr => e = "ConnectionError"
               /\ o = 409 => e = "none"
               /\ (o # NetErr /\ Is2xx(o))
                     => (e = "none" /\ lastOp.reg.value # None)
               /\ (o # NetErr /\ ~Is2xx(o) /\ o \notin {401, 409})
                     => e = "AgentMonitorError"

\* C10 amended: 401 -> AuthenticationError, transport failure ->
\* ConnectionError, 409 -> no error, any other status of 400 or more ->
\* AgentMonitorError, any status below 400 (2xx, but also a 3xx answer) ->
\* the identifier.
C10_RegisterErrorMapping ==
    lastOp.reg.called
        => LET o == lastOp.reg.outcome
               e == lastOp.reg.exc
           IN  /\ o = 401 => e = "AuthenticationError"
               /\ o = NetErr => e = "ConnectionError"
               /\ o = 409 => e = "none"
               /\ (o # NetErr /\ o < 400)
                     => (e = "none" /\ lastOp.reg.value # None)
               /\ (o # NetErr /\ o >= 400 /\ o \notin {401, 409})
                     => e = "AgentMonitorError"

C10_Witness ==
    /\ lastOp.reg.called
    /\ lastOp.reg.outcome = 304
    /\ lastOp.reg.exc = "none"

\* A request that failed: a transport error or an answer that is not 2xx.
Failed(q) == q.outcome = NetErr \/ ~Is2xx(q.outcome)

\* The last call was log() or update_status() on a started facade and a
\* request of it failed.
SteadySendFailed ==
    /\ lastOp.op \in {"log", "update_status"}
    /\ lastOp.pre.is_started
    /\ \E q \in ReqsOf(lastOp) : Failed(q)

BackendUnreachable == \A q \in ReqsOf(lastOp) : q.outcome = NetErr

\* start() went as far as the registration and the backend was unreachable.
StartUnreachable ==
    /\ lastOp.op = "start"
    /\ lastOp.reg.called
    /\ BackendUnreachable

\* C12 as stated: with the backend unreachable no step of
\* construct; start(); log(); update_status(); stop() raises, start() included.
C12_AsStated == StartUnreachable => lastOp.result = "return"

\* C12: With the backend unreachable, start() reports the failed registration
\* by raising (AgentMonitorError wrapping the ConnectionError, or the error of
\* a raising on_error handler); the other steps of the sequence, log(),
\* update_status() and stop(), raise nothing.
C12_UnreachableOnlyStartRaises ==
    /\ StartUnreachable =>
           /\ lastOp.reg.exc = "ConnectionError"
           /\ lastOp.result \in {"AgentMonitorError", "HandlerError"}
           /\ lastOp.result = "HandlerError" <=> "on_error" \in lastOp.hooks
    /\ (lastOp.op \in {"log", "update_status", "stop"} /\ BackendUnreachable)
           => lastOp.result = "return"

\* log() after the first start() failed, with the backend unreachable.
C12_Witness ==
    /\ lastOp.op = "log"
    /\ lastOp.pre.nClients = 1
    /\ ~lastOp.pre.is_started
    /\ lastOp.reqs # <<>>
    /\ BackendUnreachable

\* The thread objects that were created and started.
Started(t) == threads[t].pc # "unborn"

\* C13: Heartbeat cancellation is always effective: once stop() has been
\* called on a started thread its loop terminates after at most one further
\* heartbeat, in every interleaving.  The loop tests nothing but the running
\* flag, so after stop() the flag must stay cleared; a stopped thread whose
\* flag is set again passes every later loop test and never terminates.
C13_StopIsEffective ==
    \A t \in Objs : threads[t].stopped => ~threads[t].running

\* C14: The heartbeat loop never terminates on its own.  A thread on which
\* stop() was not called has not left its loop, whatever the outcomes of its
\* sends were: after a tick, failed or not, it sleeps and tests the flag
\* again, and the flag is still set.
C14_LoopEndsOnlyOnStop ==
    \A t \in Objs :
        (Started(t) /\ ~threads[t].stopped) =>
            /\ threads[t].pc # "done"
            /\ threads[t].pc \in {"check", "send", "sleep"}
                   => threads[t].running

\* A thread whose last heartbeat failed is about to send the next one.
C14_Witness ==
    /\ lastHb.thread # None
    /\ Failed(lastHb.req)
    /\ ~threads[lastHb.thread].stopped
    /\ threads[lastHb.thread].pc = "send"

\* C15: At most one heartbeat task of a facade instance is live at a time:
\* over any sequence of start() and stop() no two of its heartbeat threads
\* are sending heartbeats concurrently.
C15_OneHeartbeatSender ==
    Cardinality({t \in Objs : threads[t].pc = "send"}) <= 1

\* C16: A client's identifier is written exactly once.  Every client object
\* created so far carries, in every state, the identifier generated at its
\* registration (and a client whose thread was started has one); a repeated
\* register_agent on the facade's client keeps it whatever identifier would
\* be generated and whatever the backend answers.  The heartbeat thread writes
\* no client state: a client's only other field changes in stop() alone.
C16_IdentifierWrittenOnce ==
    /\ \A k \in Objs :
           clients[k].agent_id =
               IF k <= nClients THEN GenerateAgentId(k) ELSE None
    /\ \A t \in Objs :
           Started(t) => clients[threads[t].client].agent_id # None
    /\ client # None =>
           \A k2 \in Objs, oPost \in RegOutcomes :
               \A oPatch \in PatchOutcomes(oPost) :
                   register_agent(clients[client], k2, oPost, oPatch)
                       .client.agent_id = clients[client].agent_id
    /\ \A k \in Objs : clients[k].closed => everStopped /\ client # k

\* A heartbeat was sent for a registered client and a second client exists.
C16_Witness ==
    /\ lastHb.thread # None
    /\ clients[threads[lastHb.thread].client].agent_id = lastHb.req.agent_id
    /\ nClients = 2
    /\ clients[1].agent_id # None
    /\ clients[2].agent_id # None

OnUnregistered ==
    /\ scOp.op \in {"send_log", "update_status", "send_heartbeat"}
    /\ scOp.pre.agent_id = None

\* C18 as stated: a status or log operation on a client without identifier
\* fails with ConfigurationError and sends no request.
C18_AsStated ==
    OnUnregistered => scOp.exc = "ConfigurationError" /\ scOp.reqs = <<>>

\* C18: A status or log operation on a client that has no identifier fails
\* fast: it raises the base AgentMonitorError, sends no request, prints
\* nothing and leaves the client as it was.
C18_UnregisteredFailsFast ==
    OnUnregistered =>
        /\ scOp.exc = "AgentMonitorError"
        /\ scOp.reqs = <<>>
        /\ scOp.console = 0
        /\ sc = scOp.pre

C18_Witness == OnUnregistered /\ scOp.op = "send_log" /\ ~sc.closed

\* C19: Constructing the facade is inert: after construction there is no
\* client, no heartbeat thread and no request.  Until the first start() has
\* created a client no call sends anything and no heartbeat is sent, and the
\* first request of that start() is the registration POST.
C19_ConstructionIsInert ==
    /\ lastOp.op = "init" =>
           /\ lastOp.reqs = <<>>
           /\ client = None /\ heartbeat_thread = None /\ ~is_started
           /\ nClients = 0
    /\ nClients = 0 =>
           /\ lastOp.reqs = <<>>
           /\ lastHb.thread = None
           /\ \A t \in Objs : ~Started(t)
    /\ (lastOp.pre.nClients = 0 /\ lastOp.reqs # <<>>) =>
           /\ lastOp.op = "start"
           /\ IsRegistration(lastOp.reqs[1])

\* The first start() with detection on: the detection log went to the
\* console, the registration POST is the first request.
C19_Witness ==
    /\ lastOp.op = "start"
    /\ lastOp.pre.nClients = 0
    /\ cfg.auto_detect
    /\ lastOp.console > 0
    /\ lastOp.reqs # <<>>
    /\ IsRegistration(lastOp.reqs[1])

\* C20: After stop() has returned on a started facade nothing more is sent
\* for that agent: no heartbeat 'running' patch follows the 'offline' patch
\* of the shutdown, in any interleaving of the heartbeat thread and stop().
C20_SilentAfterStop ==
    [][\A t \in Objs :
          ~(/\ threads[t].stopped
            /\ threads[t].pc = "send"
            /\ threads'[t].pc = "sleep"
            /\ lastHb'.thread = t
            /\ IsStatusPatch(lastHb'.req)
            /\ lastHb'.req.body = "running")]_vars

\* The last call was a start() that reached the registration.
StartRegistered == lastOp.op = "start" /\ lastOp.reg.called

\* C21: start() registers first, launches the heartbeat second, sets up the
\* integration third and sets is_started last.  When the registration fails no
\* heartbeat thread is created and the facade is not started; every thread
\* that exists, and so every heartbeat request, belongs to a client whose
\* registration had returned; the registration request precedes the
\* integration's activation log and the final log among the requests of the
\* call.
C21_StartOrder ==
    /\ (StartRegistered /\ lastOp.reg.exc # "none") =>
           /\ ~Started(lastOp.pre.nClients + 1)
           /\ heartbeat_thread = lastOp.pre.heartbeat_thread
           /\ integration = lastOp.pre.integration
           /\ ~is_started
    /\ (StartRegistered /\ is_started) =>
           /\ lastOp.reg.exc = "none"
           /\ cfg.heartbeat_interval > 0 => heartbeat_thread = client
           /\ \E i \in 1..Len(lastOp.reqs) :
                  /\ IsRegistration(lastOp.reqs[i])
                  /\ \A j \in 1..Len(lastOp.reqs) :
                         (j > i) => ~IsRegistration(lastOp.reqs[j])
                  /\ integration = client =>
                         /\ i < Len(lastOp.reqs) - 1
                         /\ IsLogInsert(lastOp.reqs[Len(lastOp.reqs) - 1])
                         /\ IsLogInsert(lastOp.reqs[Len(lastOp.reqs)])
    /\ lastHb.thread # None =>
           /\ Started(lastHb.thread)
           /\ lastHb.thread <= nClients
           /\ lastHb.req.agent_id = clients[threads[lastHb.thread].client].agent_id

\* A start() whose registration failed, with heartbeats configured.
C21_Witness ==
    /\ StartRegistered
    /\ lastOp.reg.exc # "none"
    /\ cfg.heartbeat_interval > 0
    /\ lastOp.pre.nClients = 0

\* C22: Whenever start() raises to its caller the facade is not started and
\* nothing is left running: is_started is false and the facade holds no
\* heartbeat thread, whichever step failed.
C22_RaisingStartLeavesNothingRunning ==
    (lastOp.op = "start" /\ lastOp.result # "return") =>
        /\ ~is_started
        /\ heartbeat_thread = None

\* C23: Every heartbeat tick sends a status patch with status 'running' for
\* the identifier of the thread's client, whatever status the caller last set
\* with update_status(); the loop sends before it sleeps, so a thread that
\* has reached its sleep has sent a heartbeat.
C23_HeartbeatAlwaysRunning ==
    /\ lastHb.thread # None =>
           /\ IsStatusPatch(lastHb.req)
           /\ lastHb.req.body = "running"
           /\ lastHb.req.agent_id =
                  clients[threads[lastHb.thread].client].agent_id
    /\ \A t \in Objs :
           threads[t].pc = "sleep" => lastHb.thread # None

\* The caller set status 'idle' on the started facade and the facade's
\* heartbeat thread has ticked for the same identifier.
C23_Witness ==
    /\ lastOp.op = "update_status"
    /\ lastOp.pre.is_started
    /\ lastOp.reqs # <<>>
    /\ lastOp.reqs[1].body = "idle"
    /\ heartbeat_thread # None
    /\ lastHb.thread = heartbeat_thread
    /\ lastHb.req.agent_id = lastOp.reqs[1].agent_id
    /\ threads[heartbeat_thread].pc = "sleep"

\* C24: A register_agent call that fails leaves the client without an
\* identifier, so that send_log and update_status on it still fail fast as
\* on a never-registered client.
C24_FailedRegisterLeavesNoIdentifier ==
    (/\ scOp.op = "register_agent"
     /\ scOp.exc # "none"
     /\ scOp.pre.agent_id = None) => sc.agent_id = None

C26_NothingSentAfterStop ==
    (lastOp.op \in {"log", "update_status"} /\ lastOp.pre.everStopped) =>
        /\ lastOp.result = "return"
        /\ lastOp.reqs = <<>>

\* C27: The timeout held in the configuration is the timeout of every request
\* of the facade's client: whatever value init() was given, each client the
\* global monitor created issues its requests with that timeout.
C27_ConfiguredTimeoutApplied ==
    \A k \in Objs :
        k <= nClients => RequestTimeout(clients[k]) = config.timeout

\* Some CustomIntegration was set up and every one that was set up has been
\* cleaned up: all the facades are stopped.
AllShimsStopped ==
    /\ \E k \in 1..MaxShims : shims[k].class # "none"
    /\ \A k \in 1..MaxShims : ~shims[k].is_active

\* C28: The exception-hook install and restore is a round trip: for any set
\* of facades whose CustomIntegration was set up and any order in which they
\* are stopped, once all are stopped sys.excepthook is the hook that was
\* installed before the first setup.
C28_HookRoundTrip == AllShimsStopped => excepthook = None

\* C29: init() creates at most one global monitor and makes at most one
\* start() attempt on it: only a call that finds no global monitor constructs
\* and starts one, every later call sends nothing and creates no client, and
\* init() returns normally also when the start() it made raised.
C29_InitStartsOnce ==
    /\ lastInit.starts <= 1
    /\ nClients <= 1
    /\ lastInit.result = "return"
    /\ lastInit.calls > 0 <=> global_monitor # None
    /\ lastInit.calls > 0 => lastInit.starts = 1 /\ nClients = 1
    /\ lastInit.constructed <=> lastInit.calls = 1
    /\ lastInit.calls > 1 => lastInit.reqs = <<>>
    /\ lastInit.calls = 1 =>
           \E i \in 1..Len(lastInit.reqs) : IsRegistration(lastInit.reqs[i])

\* A second init() after the first one's start() had failed.
C29_Witness ==
    /\ lastInit.calls = 2
    /\ lastOp.op = "start"
    /\ lastOp.result # "return"
    /\ ~is_started

====
